---- MODULE Spec2Model ----
(***************************************************************************)
(* A model of src/bb/mod.rs: AppSource, AppBuilder::new, detect, build,    *)
(* gen_nix and gen_dockerfile.                                             *)
(*                                                                         *)
(* Text is a sequence of tokens (a String is <<"pkgs.", "a">>, the empty   *)
(* String is <<>>), concatenation is \o.  An Option is a sequence of       *)
(* length 0 (None) or 1 (Some(x) is <<x>>).  A Result is a record          *)
(* [ok |-> BOOLEAN, val |-> ...].                                          *)
(***************************************************************************)
EXTENDS Integers, Sequences, FiniteSets, TLC

\* ------------------------------------------------------------------ bounds
MaxBuilders == 2      \* longest builder list passed to detect
MaxDetects == 2       \* detect calls on one AppBuilder
MaxBuilds == 1        \* build calls on one AppBuilder

\* ----------------------------------------------------------- Option, Result
None == <<>>
Some(x) == <<x>>
is_none(o) == o = <<>>
is_some(o) == o # <<>>
unwrap(o) == o[1]
unwrap_or(o, d) == IF o = <<>> THEN d ELSE o[1]
Ok(v) == [ok |-> TRUE, val |-> v]
Err(e) == [ok |-> FALSE, val |-> e]

RECURSIVE SeqsUpTo(_, _)
SeqsUpTo(S, n) ==
  IF n = 0 THEN {<<>>}
  ELSE LET shorter == SeqsUpTo(S, n - 1)
       IN  shorter \cup {Append(s, x) : s \in shorter, x \in S}

\* ------------------------------------------------------------- AppSource
\* A path is the sequence of its components; file_name is the last one.
file_name(path) == path[Len(path)]

\* includes_file looking at every component of a path, not the last only.
includes_file_any_component(app, fname) ==
  \E k \in 1..Len(app.paths) :
    \E j \in 1..Len(app.paths[k]) : app.paths[k][j] = fname

includes_file(app, fname) ==
  \E k \in 1..Len(app.paths) : file_name(app.paths[k]) = fname

SourceDir == <<"app">>
Listings ==
  { <<>>,
    << <<"app", "package.json">> >>,
    << <<"app", "package.json">>, <<"app", "yarn.lock">> >>,
    << <<"app", "package.json">>, <<"app", "Dockerfile">> >>,
    << <<"app", "package.json">>, <<"app", "environment.nix">> >> }

\* ------------------------------------------------- Builder (external trait)
\* Four implementations of the Builder trait, enough to give every outcome a
\* trait method can have: detect true / false / failed, a command present /
\* absent / failed. "bad" matches every source and fails on its install
\* command without package.json, on its build command without yarn.lock, and
\* on its start command always. build_inputs returns a String, the
\* references already written as the environment description lists them.
BuilderIds == {"npm", "yarn", "io", "bad"}

builder_name(b) == <<b>>

builder_detect(b, app) ==
  CASE b = "npm"  -> Ok(includes_file(app, "package.json"))
    [] b = "yarn" -> Ok(includes_file(app, "yarn.lock"))
    [] b = "io"   -> Err("io error")
    [] b = "bad"  -> Ok(TRUE)

builder_build_inputs(b, app) ==
  CASE b = "npm"  -> <<"pkgs.", "nodejs">>
    [] b = "yarn" -> <<"pkgs.", "nodejs", " ", "pkgs.", "yarn">>
    [] b = "bad"  -> <<"pkgs.", "stdenv">>
    [] OTHER      -> <<>>

builder_install_cmd(b, app) ==
  CASE b = "npm"  -> Ok(Some(<<"npm install">>))
    [] b = "yarn" -> Ok(None)
    [] b = "bad"  -> IF includes_file(app, "package.json")
                       THEN Ok(None) ELSE Err("install_cmd failed")
    [] OTHER      -> Ok(None)

builder_suggested_build_cmd(b, app) ==
  CASE b = "npm"  -> Ok(Some(<<"npm run build">>))
    [] b = "bad"  -> IF includes_file(app, "yarn.lock")
                       THEN Ok(None) ELSE Err("suggested_build_cmd failed")
    [] OTHER      -> Ok(None)

builder_suggested_start_command(b, app) ==
  CASE b = "npm"  -> Ok(Some(<<"npm run start">>))
    [] b = "bad"  -> Err("suggested_start_command failed")
    [] OTHER      -> Ok(None)

\* ------------------------------------------------------ text construction
\* [String]::join(sep)
RECURSIVE join(_, _)
join(strs, sep) ==
  IF Len(strs) = 0 THEN <<>>
  ELSE IF Len(strs) = 1 THEN strs[1]
  ELSE strs[1] \o sep \o join(Tail(strs), sep)

\* format_pkg without the prefix.
format_pkg_bare(s) == <<s>>

\* format!("pkgs.{}", s)
format_pkg(s) == <<"pkgs.", s>>

\* ------------------------------------------------------ AppBuilder::gen_nix
gen_nix_user_pkgs(self) ==
  join([k \in 1..Len(self.pkgs) |-> format_pkg(self.pkgs[k])], <<" ">>)

\* gen_nix_pkgs with the extra packages before the builder's inputs.
gen_nix_pkgs_user_first(self) ==
  IF is_some(self.builder)
    THEN gen_nix_user_pkgs(self) \o <<" ">>
           \o builder_build_inputs(unwrap(self.builder), self.app)
    ELSE gen_nix_user_pkgs(self)

gen_nix_pkgs(self) ==
  IF is_some(self.builder)
    THEN builder_build_inputs(unwrap(self.builder), self.app)
           \o <<" ">> \o gen_nix_user_pkgs(self)
    ELSE gen_nix_user_pkgs(self)

gen_nix(self) ==
  Ok(<<"with import <nixpkgs> { }; [ ">> \o gen_nix_pkgs(self) \o <<" ]", "\n">>)

\* ----------------------------------------------- AppBuilder::gen_dockerfile
\* The text of the Dockerfile is the sequence of its lines.
install_cmd_of(self) ==
  IF is_some(self.builder)
    THEN LET r == builder_install_cmd(unwrap(self.builder), self.app)
         IN  IF r.ok THEN Ok(unwrap_or(r.val, <<>>)) ELSE r
    ELSE Ok(<<>>)

\* suggested_build_cmd_of not asking the builder when the user has given a
\* build command.
suggested_build_cmd_of_unless_custom(self) ==
  IF is_some(self.builder) /\ is_none(self.custom_build_cmd)
    THEN LET r == builder_suggested_build_cmd(unwrap(self.builder), self.app)
         IN  IF r.ok THEN Ok(unwrap_or(r.val, <<>>)) ELSE r
    ELSE Ok(<<>>)

suggested_build_cmd_of(self) ==
  IF is_some(self.builder)
    THEN LET r == builder_suggested_build_cmd(unwrap(self.builder), self.app)
         IN  IF r.ok THEN Ok(unwrap_or(r.val, <<>>)) ELSE r
    ELSE Ok(<<>>)

suggested_start_cmd_of(self) ==
  IF is_some(self.builder)
    THEN LET r == builder_suggested_start_command(unwrap(self.builder), self.app)
         IN  IF r.ok THEN Ok(unwrap_or(r.val, <<>>)) ELSE r
    ELSE Ok(<<>>)

\* build_cmd_of with the precedence the wrong way round.
build_cmd_of_suggested_first(self, suggested_build_cmd) ==
  IF suggested_build_cmd # <<>> THEN suggested_build_cmd
  ELSE unwrap_or(self.custom_build_cmd, <<>>)

build_cmd_of(self, suggested_build_cmd) ==
  unwrap_or(self.custom_build_cmd, suggested_build_cmd)

start_cmd_of(self, suggested_start_cmd) ==
  unwrap_or(self.custom_start_cmd, suggested_start_cmd)

\* dockerfile_text leaving out the clause of a command that is empty.
dockerfile_text_omit_empty(install_cmd, build_cmd, start_cmd) ==
  << <<"FROM nixos/nix">>,
     <<>>,
     <<"RUN nix-channel --update">>,
     <<>>,
     <<"COPY . /app">>,
     <<"WORKDIR /app">>,
     <<>>,
     <<"# Load Nix environment">>,
     <<"RUN nix-env -if environment.nix">> >>
  \o (IF install_cmd = <<>> THEN <<>>
      ELSE << <<>>, <<"# Install">>, <<"RUN ">> \o install_cmd >>)
  \o (IF build_cmd = <<>> THEN <<>>
      ELSE << <<>>, <<"# Build">>, <<"RUN ">> \o build_cmd >>)
  \o (IF start_cmd = <<>> THEN <<>>
      ELSE << <<>>, <<"# Start">>, <<"CMD ">> \o start_cmd >>)

dockerfile_text(install_cmd, build_cmd, start_cmd) ==
  << <<"FROM nixos/nix">>,
     <<>>,
     <<"RUN nix-channel --update">>,
     <<>>,
     <<"COPY . /app">>,
     <<"WORKDIR /app">>,
     <<>>,
     <<"# Load Nix environment">>,
     <<"RUN nix-env -if environment.nix">>,
     <<>>,
     <<"# Install">>,
     <<"RUN ">> \o install_cmd,
     <<>>,
     <<"# Build">>,
     <<"RUN ">> \o build_cmd,
     <<>>,
     <<"# Start">>,
     <<"CMD ">> \o start_cmd >>

gen_dockerfile(self) ==
  LET ic == install_cmd_of(self)
      sb == suggested_build_cmd_of(self)
      ss == suggested_start_cmd_of(self)
  IN  IF ~ic.ok THEN ic
      ELSE IF ~sb.ok THEN sb
      ELSE IF ~ss.ok THEN ss
      ELSE Ok(dockerfile_text(ic.val, build_cmd_of(self, sb.val),
                              start_cmd_of(self, ss.val)))

\* ------------------------------------------------------------------ state
VARIABLES
  self,            \* the AppBuilder: name, app, custom_build_cmd,
                   \*   custom_start_cmd, pkgs, builder
  pc,              \* "idle", or the statement detect / build is at
  builders,        \* detect: the builder list it was called with
  idx,             \* detect: position of the for loop in builders
  invoked,         \* detect: the builders whose detect this call has invoked
  detect_ret,      \* what the last detect call returned
  nix_expression,  \* build: Option of the text gen_nix returned
  dockerfile,      \* build: Option of the text gen_dockerfile returned
  id,              \* build: Option of the Uuid of this call
  build_ret,       \* what the last build call returned
  fs,              \* ./tmp/<id> for every id: the directory and the two files
  procs,           \* the child processes this run has spawned, in order
  stdout,          \* the lines printed by the current call
  steps,           \* the operations and statements executed so far, in order
  ndetect,         \* detect calls so far
  nbuild,          \* build calls so far
  disk,            \* the source directory on disk: its entries named as the artifacts
  other,           \* the AppBuilder and call state of a second run, when there is one
  query            \* includes_file: Option of the question asked and the answer

vars == <<self, pc, builders, idx, invoked, detect_ret, nix_expression,
          dockerfile, id, build_ret, fs, procs, stdout, steps, ndetect,
          nbuild, disk, other, query>>

detect_vars == <<builders, idx, invoked, detect_ret, ndetect>>
build_vars == <<nix_expression, dockerfile, id, build_ret, fs, procs, nbuild>>
rest_vars == <<disk, other, query>>

Uuids == {"u1", "u2"}
Names == {None, Some(<<"myapp">>)}
BuildCmds == {None, Some(<<"make">>)}
StartCmds == {None, Some(<<"./run">>)}
\* Extra-package lists: none, one, two out of alphabetical order, one twice.
PkgLists == {<<>>, <<"a">>, <<"b", "a">>, <<"a", "a">>}

\* ./tmp/<id> before it exists. dockerfile_link: the Dockerfile of the
\* directory is a symbolic link to the Dockerfile file of the source tree.
NoDir == [dir |-> "absent", nix |-> None, dockerfile |-> None,
          dockerfile_link |-> FALSE]

\* The texts of a Dockerfile and an environment.nix found in a source tree.
SourceDockerfile == << <<"FROM scratch">> >>
SourceNix == <<"{ }">>

\* The source directories on disk a listing can have been read from: an
\* entry named Dockerfile is a regular file or an absolute symbolic link to
\* a regular file of the source tree, an entry named environment.nix is a
\* regular file. Dockerfile_text is the text of that regular file.
DisksOf(app) ==
  { [Dockerfile |-> k,
     environment_nix |-> IF includes_file(app, "environment.nix")
                           THEN "file" ELSE "absent",
     Dockerfile_text |-> IF k = "absent" THEN <<>> ELSE SourceDockerfile] :
    k \in IF includes_file(app, "Dockerfile") THEN {"file", "symlink"}
                                              ELSE {"absent"} }

\* AppBuilder::new: the fields are the arguments, the listing is read once,
\* no builder is selected.
new(name, source, custom_build_cmd, custom_start_cmd, pkgs, listing) ==
  [name |-> name,
   app |-> [source |-> source, paths |-> listing],
   custom_build_cmd |-> custom_build_cmd,
   custom_start_cmd |-> custom_start_cmd,
   pkgs |-> pkgs,
   builder |-> None]

\* No call made yet, nothing staged.
InitCall ==
  /\ pc = "idle"
  /\ builders = <<>>
  /\ idx = 1
  /\ invoked = <<>>
  /\ detect_ret = "none"
  /\ nix_expression = None
  /\ dockerfile = None
  /\ id = None
  /\ build_ret = "none"
  /\ fs = [u \in Uuids |-> NoDir]
  /\ procs = <<>>
  /\ stdout = <<>>
  /\ steps = <<>>
  /\ ndetect = 0
  /\ nbuild = 0

Init ==
  /\ \E n \in Names, bc \in BuildCmds, sc \in StartCmds,
        ps \in PkgLists, l \in Listings :
       self = new(n, SourceDir, bc, sc, ps, l)
  /\ disk \in DisksOf(self.app)
  /\ other = None
  /\ query = None
  /\ InitCall

\* ---------------------------------------------------- AppBuilder::detect
CallDetect(bs) ==
  /\ pc = "idle"
  /\ ndetect < MaxDetects
  /\ pc' = "detect_loop"
  /\ builders' = bs
  /\ idx' = 1
  /\ invoked' = <<>>
  /\ detect_ret' = "running"
  /\ ndetect' = ndetect + 1
  /\ stdout' = << <<"=== Detecting ===">> >>
  /\ steps' = Append(steps, "detect")
  /\ UNCHANGED <<self, build_vars>>
  /\ UNCHANGED rest_vars

\* DetectIter without the break: the loop goes on after a match.
DetectIter_no_break ==
  /\ pc = "detect_loop"
  /\ idx <= Len(builders)
  /\ LET b == builders[idx]
         matches == builder_detect(b, self.app)
     IN  /\ invoked' = Append(invoked, b)
         /\ IF ~matches.ok
              THEN /\ pc' = "idle"
                   /\ detect_ret' = "builder error"
                   /\ UNCHANGED <<self, idx>>
              ELSE /\ self' = IF matches.val THEN [self EXCEPT !.builder = Some(b)]
                                             ELSE self
                   /\ idx' = idx + 1
                   /\ UNCHANGED <<pc, detect_ret>>
  /\ UNCHANGED <<builders, ndetect, stdout, steps, build_vars>>
  /\ UNCHANGED rest_vars

\* DetectIter with a failed detect taken for "no match".
DetectIter_error_as_no_match ==
  /\ pc = "detect_loop"
  /\ idx <= Len(builders)
  /\ LET b == builders[idx]
         matches == builder_detect(b, self.app)
     IN  /\ invoked' = Append(invoked, b)
         /\ IF matches.ok /\ matches.val
              THEN /\ self' = [self EXCEPT !.builder = Some(b)]
                   /\ pc' = "detect_match"
                   /\ UNCHANGED <<idx, detect_ret>>
              ELSE /\ idx' = idx + 1
                   /\ UNCHANGED <<self, pc, detect_ret>>
  /\ UNCHANGED <<builders, ndetect, stdout, steps, build_vars>>
  /\ UNCHANGED rest_vars

\* One iteration of `for builder in builders`: the call of builder.detect,
\* the `?` on its result, and the assignment and break on a match.
DetectIter ==
  /\ pc = "detect_loop"
  /\ idx <= Len(builders)
  /\ LET b == builders[idx]
         matches == builder_detect(b, self.app)
     IN  /\ invoked' = Append(invoked, b)
         /\ IF ~matches.ok
              THEN /\ pc' = "idle"
                   /\ detect_ret' = "builder error"
                   /\ UNCHANGED <<self, idx>>
              ELSE IF matches.val
                THEN /\ self' = [self EXCEPT !.builder = Some(b)]
                     /\ pc' = "detect_match"
                     /\ UNCHANGED <<idx, detect_ret>>
                ELSE /\ idx' = idx + 1
                     /\ UNCHANGED <<self, pc, detect_ret>>
  /\ UNCHANGED <<builders, ndetect, stdout, steps, build_vars>>
  /\ UNCHANGED rest_vars

DetectLoopEnd ==
  /\ pc = "detect_loop"
  /\ idx > Len(builders)
  /\ pc' = "detect_match"
  /\ UNCHANGED <<self, detect_vars, stdout, steps, build_vars>>
  /\ UNCHANGED rest_vars

\* detect_outcome failing whenever no builder is selected.
detect_outcome_ignores_override(s) ==
  IF is_some(s.builder)
    THEN [ret |-> "ok",
          out |-> << <<"  -> Matched builder ">> \o builder_name(unwrap(s.builder)) >>]
    ELSE [ret |-> "Failed to match a builder", out |-> <<>>]

\* detect_outcome without the bail!.
detect_outcome_never_fails(s) ==
  IF is_some(s.builder)
    THEN [ret |-> "ok",
          out |-> << <<"  -> Matched builder ">> \o builder_name(unwrap(s.builder)) >>]
    ELSE [ret |-> "ok", out |-> << <<"  -> No builders matched">> >>]

\* detect_outcome with the test of the start command inverted.
detect_outcome_inverted(s) ==
  IF is_some(s.builder)
    THEN [ret |-> "ok",
          out |-> << <<"  -> Matched builder ">> \o builder_name(unwrap(s.builder)) >>]
    ELSE IF is_some(s.custom_start_cmd)
      THEN [ret |-> "Failed to match a builder", out |-> <<>>]
      ELSE [ret |-> "ok", out |-> << <<"  -> No builders matched">> >>]

\* `match self.builder`: what detect returns and prints.
detect_outcome(s) ==
  IF is_some(s.builder)
    THEN [ret |-> "ok",
          out |-> << <<"  -> Matched builder ">> \o builder_name(unwrap(s.builder)) >>]
    ELSE IF is_none(s.custom_start_cmd)
      THEN [ret |-> "Failed to match a builder", out |-> <<>>]
      ELSE [ret |-> "ok", out |-> << <<"  -> No builders matched">> >>]

DetectMatch ==
  /\ pc = "detect_match"
  /\ detect_ret' = detect_outcome(self).ret
  /\ stdout' = stdout \o detect_outcome(self).out
  /\ pc' = "idle"
  /\ UNCHANGED <<self, builders, idx, invoked, ndetect, steps, build_vars>>
  /\ UNCHANGED rest_vars

\* ----------------------------------------------------- AppBuilder::build
\* format!("./tmp/{}", id)
tmp_dir_name(u) == <<"./tmp/", u>>

\* self.name.clone().unwrap_or_else(|| id.to_string())
\* image_name taking the identifier also when a name was given.
image_name_always_id(s, u) == <<u>>

image_name(s, u) == unwrap_or(s.name, <<u>>)

\* A `?` that takes the error branch: build returns Err(e).
BuildFails(e) ==
  /\ pc' = "idle"
  /\ build_ret' = e

\* CallBuild reading the source directory again.
CallBuild_rescan ==
  /\ pc = "idle"
  /\ nbuild < MaxBuilds
  /\ pc' = "gen_nix"
  /\ nix_expression' = None
  /\ dockerfile' = None
  /\ id' = None
  /\ build_ret' = "running"
  /\ nbuild' = nbuild + 1
  /\ stdout' = << <<"\n=== Building ===">> >>
  /\ steps' = Append(steps, "build")
  /\ \E l \in Listings : self' = [self EXCEPT !.app.paths = l]
  /\ UNCHANGED <<detect_vars, fs, procs>>
  /\ UNCHANGED rest_vars

CallBuild ==
  /\ pc = "idle"
  /\ nbuild < MaxBuilds
  /\ pc' = "gen_nix"
  /\ nix_expression' = None
  /\ dockerfile' = None
  /\ id' = None
  /\ build_ret' = "running"
  /\ nbuild' = nbuild + 1
  /\ stdout' = << <<"\n=== Building ===">> >>
  /\ steps' = Append(steps, "build")
  /\ UNCHANGED <<self, detect_vars, fs, procs>>
  /\ UNCHANGED rest_vars

GenNix ==
  /\ pc = "gen_nix"
  /\ steps' = Append(steps, "gen_nix")
  /\ LET r == gen_nix(self)
     IN  /\ r.ok
         /\ nix_expression' = Some(r.val)
  /\ stdout' = Append(stdout, <<"  -> Generated Nix expression">>)
  /\ pc' = "gen_dockerfile"
  /\ UNCHANGED <<self, detect_vars, dockerfile, id, build_ret, fs, procs, nbuild>>
  /\ UNCHANGED rest_vars

GenDockerfile ==
  /\ pc = "gen_dockerfile"
  /\ steps' = Append(steps, "gen_dockerfile")
  /\ LET r == gen_dockerfile(self)
     IN  IF r.ok
           THEN /\ dockerfile' = Some(r.val)
                /\ stdout' = Append(stdout, <<"  -> Generated Dockerfile">>)
                /\ pc' = "uuid"
                /\ UNCHANGED build_ret
           ELSE /\ BuildFails(r.val)
                /\ UNCHANGED <<dockerfile, stdout>>
  /\ UNCHANGED <<self, detect_vars, nix_expression, id, fs, procs, nbuild>>
  /\ UNCHANGED rest_vars

\* The identifiers some call has drawn already, of this run or of the other.
Drawn ==
  {u \in Uuids :
     \/ fs[u].dir # "absent"
     \/ \E k \in 1..Len(procs) : procs[k].ws = u
     \/ /\ other # None
        /\ \/ other.id = Some(u)
           \/ \E k \in 1..Len(other.procs) : other.procs[k].ws = u}

\* Uuid::new_v4(): a random identifier, one no earlier call has drawn.
NewUuid ==
  /\ pc = "uuid"
  /\ steps' = Append(steps, "uuid")
  /\ \E u \in Uuids \ Drawn :
       id' = Some(u)
  /\ stdout' = Append(stdout, <<"  -> Copying source to tmp dir">>)
  /\ pc' = "cp_spawn"
  /\ UNCHANGED <<self, detect_vars, nix_expression, dockerfile, build_ret,
                 fs, procs, nbuild>>
  /\ UNCHANGED rest_vars

\* Command::new("cp").arg("-R").arg(source).arg(tmp_dir_name).spawn()?
CopySpawn ==
  /\ pc = "cp_spawn"
  /\ steps' = Append(steps, "cp spawn")
  /\ \E spawned \in BOOLEAN :
       IF spawned
         THEN /\ procs' = Append(procs,
                    [cmd |-> "cp", ws |-> unwrap(id),
                     args |-> << <<"-R">>, self.app.source, tmp_dir_name(unwrap(id)) >>,
                     status |-> "running"])
              /\ pc' = "cp_wait"
              /\ UNCHANGED build_ret
         ELSE /\ BuildFails("spawn cp")
              /\ UNCHANGED procs
  /\ UNCHANGED <<self, detect_vars, nix_expression, dockerfile, id, fs,
                 stdout, nbuild>>
  /\ UNCHANGED rest_vars

\* What a cp that ran to its exit has left of ./tmp/<id>.
CopyLeaves(status) ==
  IF status = "exit 0" THEN {"full"} ELSE {"absent", "partial"}

\* ./tmp/<id> as cp -R has left it: the directory in state d, with the
\* entries of the source named as the artifacts copied into it or not. cp -R
\* copies a symbolic link as a link, not the file it points to.
copied(d, entries) ==
  IF entries
    THEN [dir |-> d,
          nix |-> IF disk.environment_nix = "file" THEN Some(SourceNix) ELSE None,
          dockerfile |-> IF disk.Dockerfile = "file"
                           THEN Some(disk.Dockerfile_text) ELSE None,
          dockerfile_link |-> disk.Dockerfile = "symlink"]
    ELSE [NoDir EXCEPT !.dir = d]

\* copy_cmd.wait().context("Copying app source to tmp dir")?
\* wait returns Ok(ExitStatus) whatever the exit status is; only a failure of
\* the wait itself is an Err.
CopyWait ==
  /\ pc = "cp_wait"
  /\ steps' = Append(steps, "cp wait")
  /\ \E status \in {"exit 0", "exit 1", "wait failed"} :
     \E d \in IF status = "wait failed" THEN {"absent", "partial", "full"}
                                       ELSE CopyLeaves(status) :
     \E entries \in IF d = "partial" THEN BOOLEAN ELSE {d = "full"} :
       /\ fs' = [fs EXCEPT ![unwrap(id)] = copied(d, entries)]
       /\ procs' = [procs EXCEPT ![Len(procs)].status = status]
       /\ IF status = "wait failed"
            THEN /\ BuildFails("Copying app source to tmp dir")
                 /\ UNCHANGED stdout
            ELSE /\ pc' = "create_nix"
                 /\ stdout' = Append(stdout, <<"  -> Writing environment.nix">>)
                 /\ UNCHANGED build_ret
  /\ UNCHANGED <<self, detect_vars, nix_expression, dockerfile, id, nbuild>>
  /\ UNCHANGED rest_vars

\* File::create(path): fails when the directory is missing, and may fail
\* otherwise; on success the file exists and is empty.
CanCreateIn(u) == IF fs[u].dir = "absent" THEN {FALSE} ELSE {TRUE, FALSE}

\* File::create(nix_path).context("Creating Nix environment file")?
CreateNix ==
  /\ pc = "create_nix"
  /\ steps' = Append(steps, "create environment.nix")
  /\ \E created \in CanCreateIn(unwrap(id)) :
       IF created
         THEN /\ fs' = [fs EXCEPT ![unwrap(id)].nix = Some(<<>>)]
              /\ pc' = "write_nix"
              /\ UNCHANGED build_ret
         ELSE /\ BuildFails("Creating Nix environment file")
              /\ UNCHANGED fs
  /\ UNCHANGED <<self, detect_vars, nix_expression, dockerfile, id, procs,
                 stdout, nbuild>>
  /\ UNCHANGED rest_vars

\* nix_file.write_all(nix_expression.as_bytes()).context(...)?
WriteNix ==
  /\ pc = "write_nix"
  /\ steps' = Append(steps, "write environment.nix")
  /\ \E written \in BOOLEAN :
       IF written
         THEN /\ fs' = [fs EXCEPT ![unwrap(id)].nix = nix_expression]
              /\ pc' = "create_dockerfile"
              /\ stdout' = Append(stdout, <<"  -> Writing Dockerfile">>)
              /\ UNCHANGED build_ret
         ELSE /\ BuildFails("Unable to write Nix expression")
              /\ UNCHANGED <<fs, stdout>>
  /\ UNCHANGED <<self, detect_vars, nix_expression, dockerfile, id, procs, nbuild>>
  /\ UNCHANGED rest_vars

\* write_dockerfile_path putting the name of the directory into the file.
write_dockerfile_path_tagged(u, text) ==
  IF fs[u].dockerfile_link
    THEN [fs |-> fs, disk |-> [disk EXCEPT !.Dockerfile_text = Append(text, <<"# ", u>>)]]
    ELSE [fs |-> [fs EXCEPT ![u].dockerfile = Some(Append(text, <<"# ", u>>))],
          disk |-> disk]

\* What writing text to ./tmp/<u>/Dockerfile makes of the file system: opening
\* the path for writing follows a symbolic link, so the text goes to the
\* file the link points to.
write_dockerfile_path(u, text) ==
  IF fs[u].dockerfile_link
    THEN [fs |-> fs, disk |-> [disk EXCEPT !.Dockerfile_text = text]]
    ELSE [fs |-> [fs EXCEPT ![u].dockerfile = Some(text)], disk |-> disk]

\* File::create(dockerfile_path.clone()).context("Creating Dockerfile file")?
CreateDockerfile ==
  /\ pc = "create_dockerfile"
  /\ steps' = Append(steps, "create Dockerfile")
  /\ \E created \in CanCreateIn(unwrap(id)) :
       IF created
         THEN /\ fs' = write_dockerfile_path(unwrap(id), <<>>).fs
              /\ disk' = write_dockerfile_path(unwrap(id), <<>>).disk
              /\ pc' = "write_dockerfile"
              /\ UNCHANGED build_ret
         ELSE /\ BuildFails("Creating Dockerfile file")
              /\ UNCHANGED <<fs, disk>>
  /\ UNCHANGED <<self, detect_vars, nix_expression, dockerfile, id, procs,
                 stdout, nbuild, other, query>>

\* WriteDockerfile removing the directory when the write fails.
WriteDockerfile_cleanup ==
  /\ pc = "write_dockerfile"
  /\ steps' = Append(steps, "write Dockerfile")
  /\ \E written \in BOOLEAN :
       IF written
         THEN /\ fs' = write_dockerfile_path(unwrap(id), unwrap(dockerfile)).fs
              /\ disk' = write_dockerfile_path(unwrap(id), unwrap(dockerfile)).disk
              /\ pc' = "docker_spawn"
              /\ stdout' = Append(stdout, <<"  -> Building image">>)
              /\ UNCHANGED build_ret
         ELSE /\ BuildFails("Writing Dockerfile")
              /\ fs' = [fs EXCEPT ![unwrap(id)] = NoDir]
              /\ UNCHANGED <<disk, stdout>>
  /\ UNCHANGED <<self, detect_vars, nix_expression, dockerfile, id, procs,
                 nbuild, other, query>>

\* fs::write(dockerfile_path, dockerfile).context("Writing Dockerfile")?
WriteDockerfile ==
  /\ pc = "write_dockerfile"
  /\ steps' = Append(steps, "write Dockerfile")
  /\ \E written \in BOOLEAN :
       IF written
         THEN /\ fs' = write_dockerfile_path(unwrap(id), unwrap(dockerfile)).fs
              /\ disk' = write_dockerfile_path(unwrap(id), unwrap(dockerfile)).disk
              /\ pc' = "docker_spawn"
              /\ stdout' = Append(stdout, <<"  -> Building image">>)
              /\ UNCHANGED build_ret
         ELSE /\ BuildFails("Writing Dockerfile")
              /\ UNCHANGED <<fs, disk, stdout>>
  /\ UNCHANGED <<self, detect_vars, nix_expression, dockerfile, id, procs,
                 nbuild, other, query>>

\* Command::new("docker").arg("build").arg(tmp_dir_name).arg("-t").arg(name).spawn()?
DockerSpawn ==
  /\ pc = "docker_spawn"
  /\ steps' = Append(steps, "docker spawn")
  /\ \E spawned \in BOOLEAN :
       IF spawned
         THEN /\ procs' = Append(procs,
                    [cmd |-> "docker", ws |-> unwrap(id),
                     args |-> << <<"build">>, tmp_dir_name(unwrap(id)), <<"-t">>,
                                 image_name(self, unwrap(id)) >>,
                     status |-> "running"])
              /\ pc' = "docker_wait"
              /\ UNCHANGED build_ret
         ELSE /\ BuildFails("spawn docker")
              /\ UNCHANGED procs
  /\ UNCHANGED <<self, detect_vars, nix_expression, dockerfile, id, fs,
                 stdout, nbuild>>
  /\ UNCHANGED rest_vars

\* What docker_build_cmd.wait().context("Building image")? makes of the exit:
\* the pc build goes on to, and what it returns when it stops.
after_docker_wait(status) ==
  IF status = "wait failed"
    THEN [pc |-> "idle", ret |-> "Building image"]
    ELSE [pc |-> "report", ret |-> "running"]

DockerWait ==
  /\ pc = "docker_wait"
  /\ steps' = Append(steps, "docker wait")
  /\ \E status \in {"exit 0", "exit 1", "wait failed"} :
       /\ procs' = [procs EXCEPT ![Len(procs)].status = status]
       /\ pc' = after_docker_wait(status).pc
       /\ build_ret' = after_docker_wait(status).ret
  /\ UNCHANGED <<self, detect_vars, nix_expression, dockerfile, id, fs,
                 stdout, nbuild>>
  /\ UNCHANGED rest_vars

\* println!("  -> Built!"); println!("\nRun:\n  docker run {}", name); Ok(())
Report ==
  /\ pc = "report"
  /\ steps' = Append(steps, "report")
  /\ stdout' = stdout \o << <<"  -> Built!">>,
                            <<"\nRun:\n  docker run ">> \o image_name(self, unwrap(id)) >>
  /\ build_ret' = "ok"
  /\ pc' = "idle"
  /\ UNCHANGED <<self, detect_vars, nix_expression, dockerfile, id, fs, procs, nbuild>>
  /\ UNCHANGED rest_vars

DetectStep == DetectIter \/ DetectLoopEnd \/ DetectMatch

BuildStep ==
  \/ GenNix \/ GenDockerfile \/ NewUuid
  \/ CopySpawn \/ CopyWait
  \/ CreateNix \/ WriteNix \/ CreateDockerfile \/ WriteDockerfile
  \/ DockerSpawn \/ DockerWait \/ Report

BuilderLists == SeqsUpTo(BuilderIds, MaxBuilders)

\* The public interface of AppBuilder: detect and build, in any order.
ApiNext ==
  \/ \E bs \in BuilderLists : CallDetect(bs)
  \/ CallBuild
  \/ DetectStep
  \/ BuildStep

SpecApi == Init /\ [][ApiNext]_vars

\* One orchestrator run: detect once on the AppBuilder just constructed, and
\* build once, only after detect has returned Ok.
RunDetect(bs) ==
  /\ ndetect = 0
  /\ nbuild = 0
  /\ CallDetect(bs)

RunBuild ==
  /\ detect_ret = "ok"
  /\ nbuild = 0
  /\ CallBuild

Next ==
  \/ \E bs \in BuilderLists : RunDetect(bs)
  \/ RunBuild
  \/ DetectStep
  \/ BuildStep

Spec == Init /\ [][Next]_vars

\* ------------------------------------------------------------- two runs
\* Two orchestrator runs on one host, of the same request over the same
\* source directory and with the same builder list, their steps interleaved
\* in any way. Each run has its own AppBuilder, call state and children; the
\* file system is the one they share. The variables hold the run that takes
\* the next step, other holds the run that waits.
Context ==
  [self |-> self, pc |-> pc, builders |-> builders, idx |-> idx,
   invoked |-> invoked, detect_ret |-> detect_ret,
   nix_expression |-> nix_expression, dockerfile |-> dockerfile, id |-> id,
   build_ret |-> build_ret, procs |-> procs, stdout |-> stdout,
   steps |-> steps, ndetect |-> ndetect, nbuild |-> nbuild]

\* The scheduler takes the running run off and puts the waiting one on.
Switch ==
  /\ other # None
  /\ other' = Context
  /\ self' = other.self
  /\ pc' = other.pc
  /\ builders' = other.builders
  /\ idx' = other.idx
  /\ invoked' = other.invoked
  /\ detect_ret' = other.detect_ret
  /\ nix_expression' = other.nix_expression
  /\ dockerfile' = other.dockerfile
  /\ id' = other.id
  /\ build_ret' = other.build_ret
  /\ procs' = other.procs
  /\ stdout' = other.stdout
  /\ steps' = other.steps
  /\ ndetect' = other.ndetect
  /\ nbuild' = other.nbuild
  /\ UNCHANGED <<fs, disk, query>>

\* The requests of the two-run specification: with and without a name, with
\* a start command, one extra package, a source with and without a
\* Dockerfile of its own.
TwoRunListings ==
  {l \in Listings : Len(l) = 1 \/ includes_file([paths |-> l], "Dockerfile")}

InitTwo ==
  /\ \E n \in Names, l \in TwoRunListings :
       self = new(n, SourceDir, None, Some(<<"./run">>), <<"a">>, l)
  /\ disk \in DisksOf(self.app)
  /\ query = None
  /\ InitCall
  /\ other = Context

\* The second run is given the builder list of the first.
SameList(bs) == other.ndetect = 0 \/ bs = other.builders

NextTwo ==
  \/ \E bs \in BuilderLists : SameList(bs) /\ RunDetect(bs)
  \/ RunBuild
  \/ DetectStep
  \/ BuildStep
  \/ Switch

SpecTwo == InitTwo /\ [][NextTwo]_vars

\* -------------------------------------------------- includes_file alone
\* AppSource::includes_file applied to listings and names spelt out letter
\* by letter, so that one name can be a prefix or a part of another, or differ
\* from it in case only. A path has two components, the source directory and
\* the entry.
MaxEntries == 2
FileNames == {<<"a">>, <<"A">>, <<"b">>, <<"a", "b">>, <<"b", "a">>}
EntryLists == SeqsUpTo(FileNames, MaxEntries)

\* fs::read_dir(source): every entry is the source path with its name added.
read_dir(source, entries) ==
  [k \in 1..Len(entries) |-> Append(source, entries[k])]

NoDisk == [Dockerfile |-> "absent", environment_nix |-> "absent",
           Dockerfile_text |-> <<>>]

InitIncludes ==
  /\ \E d \in FileNames, es \in EntryLists :
       self = new(None, <<d>>, None, None, <<>>, read_dir(<<d>>, es))
  /\ \E n \in FileNames : query = Some([fname |-> n, answer |-> None])
  /\ disk = NoDisk
  /\ other = None
  /\ InitCall

\* self.app.includes_file(fname)
Ask ==
  /\ unwrap(query).answer = None
  /\ query' = Some([unwrap(query) EXCEPT
                     !.answer = Some(includes_file(self.app, unwrap(query).fname))])
  /\ UNCHANGED <<self, pc, detect_vars, build_vars, stdout, steps, disk, other>>

NextIncludes == Ask

SpecIncludes == InitIncludes /\ [][NextIncludes]_vars

\* -------------------------------------------------------------- properties
InSteps(x) == \E k \in 1..Len(steps) : steps[k] = x

DetectReturned == pc = "idle" /\ detect_ret \notin {"none", "running"}

\* The position of the first builder of bs whose detect returns true with
\* every earlier one returning false; 0 when there is none.
FirstMatch(bs, app) ==
  LET hits == {k \in 1..Len(bs) :
                 /\ builder_detect(bs[k], app) = Ok(TRUE)
                 /\ \A j \in 1..(k - 1) : builder_detect(bs[j], app) = Ok(FALSE)}
  IN  IF hits = {} THEN 0 ELSE CHOOSE k \in hits : TRUE

\* The position of the first builder of bs whose detect fails with every
\* earlier one returning false; 0 when there is none.
FirstFailure(bs, app) ==
  LET hits == {k \in 1..Len(bs) :
                 /\ ~builder_detect(bs[k], app).ok
                 /\ \A j \in 1..(k - 1) : builder_detect(bs[j], app) = Ok(FALSE)}
  IN  IF hits = {} THEN 0 ELSE CHOOSE k \in hits : TRUE

NoBuilderMatches(bs, app) ==
  \A k \in 1..Len(bs) : builder_detect(bs[k], app) = Ok(FALSE)

\* C1: when detect has returned Ok with a builder selected, the selected
\* builder is the first one of the list whose detect returns true, and the
\* builders invoked are exactly the list up to and including it: none after
\* it was invoked.
C1_FirstMatchWins ==
  (DetectReturned /\ detect_ret = "ok" /\ is_some(self.builder)) =>
    LET k == FirstMatch(builders, self.app)
    IN  /\ k > 0
        /\ self.builder = Some(builders[k])
        /\ invoked = SubSeq(builders, 1, k)

\* Both builders of the list match, the first is selected and the second was
\* never invoked.
C1_Witness ==
  /\ DetectReturned
  /\ detect_ret = "ok"
  /\ builders = <<"npm", "yarn">>
  /\ builder_detect("yarn", self.app) = Ok(TRUE)
  /\ self.builder = Some("npm")
  /\ invoked = <<"npm">>

\* C2: when detect has returned and no builder of its list matched (the
\* empty list included), it has failed with "Failed to match a builder" if
\* there is no start-command override, and has returned Ok with no builder
\* selected if there is one.
C2_NoMatch ==
  (DetectReturned /\ NoBuilderMatches(builders, self.app)) =>
    IF is_none(self.custom_start_cmd)
      THEN detect_ret = "Failed to match a builder"
      ELSE detect_ret = "ok" /\ is_none(self.builder)

\* A non-empty list none of whose builders matches, with a start-command
\* override: detect returned Ok and selected nothing.
C2_Witness ==
  /\ DetectReturned
  /\ Len(builders) > 0
  /\ NoBuilderMatches(builders, self.app)
  /\ is_some(self.custom_start_cmd)
  /\ detect_ret = "ok"
  /\ is_none(self.builder)

\* C3: when a builder's detect fails during the iteration, detect returns
\* that error: it does not return Ok or "no match", the failing builder is
\* the last one invoked, and no builder is selected by the call, with or
\* without a start-command override.
C3_DetectErrorAborts ==
  (DetectReturned /\ FirstFailure(builders, self.app) > 0) =>
    /\ detect_ret = "builder error"
    /\ invoked = SubSeq(builders, 1, FirstFailure(builders, self.app))
    /\ is_none(self.builder)

\* The failing builder comes first, a matching builder follows it and a
\* start-command override is present: detect returned the error, invoked
\* only the failing builder and selected nothing.
C3_Witness ==
  /\ DetectReturned
  /\ builders = <<"io", "npm">>
  /\ builder_detect("npm", self.app) = Ok(TRUE)
  /\ is_some(self.custom_start_cmd)
  /\ detect_ret = "builder error"
  /\ invoked = <<"io">>
  /\ is_none(self.builder)

\* C4: once the selection holds a builder, no step of any operation changes
\* it (stated for every sequence of detect and build calls on one AppBuilder).
C4_SelectionNeverReassigned ==
  [][is_some(self.builder) => self'.builder = self.builder]_vars

\* C5: once a child process has exited non-zero, build has stopped with an
\* error: no later statement runs and success is not reported.
C5_NonZeroExitFails ==
  \A k \in 1..Len(procs) :
    procs[k].status = "exit 1" => (pc = "idle" /\ build_ret \notin {"ok", "running"})

FullOrder ==
  <<"detect", "build", "gen_nix", "gen_dockerfile", "uuid", "cp spawn", "cp wait",
    "create environment.nix", "write environment.nix",
    "create Dockerfile", "write Dockerfile",
    "docker spawn", "docker wait", "report">>

IsPrefix(a, b) == Len(a) <= Len(b) /\ a = SubSeq(b, 1, Len(a))

NoWorkspaceNoProcess == procs = <<>> /\ \A u \in Uuids : fs[u] = NoDir

\* C6: the statements of a run execute in the one fixed order detect,
\* generation, staging, invocation, report; generation and staging happen
\* only after detect returned Ok, staging only with both texts generated, and
\* success only after the docker process was waited for; and when no builder
\* matches and there is no start-command override, no workspace exists and no
\* process was started.
C6_LinearStateMachine ==
  /\ IsPrefix(steps, FullOrder)
  /\ InSteps("build") => detect_ret = "ok"
  /\ InSteps("uuid") => (is_some(nix_expression) /\ is_some(dockerfile))
  /\ build_ret = "ok" => InSteps("docker wait")
  /\ (NoBuilderMatches(builders, self.app) /\ is_none(self.custom_start_cmd))
       => NoWorkspaceNoProcess

\* A run that went all the way: detect, both texts, the staged workspace, the
\* docker process and the report.
C6_Witness ==
  /\ steps = FullOrder
  /\ build_ret = "ok"
  /\ ~NoWorkspaceNoProcess

\* C7: whenever build (generation, staging) runs or has run with no builder
\* selected, the Build Request has a start-command override.
C7_NoneOnlyWithStartCmd ==
  (InSteps("build") /\ is_none(self.builder)) => is_some(self.custom_start_cmd)

\* Staging has run with no builder selected.
C7_Witness ==
  /\ InSteps("write Dockerfile")
  /\ is_none(self.builder)
  /\ is_some(self.custom_start_cmd)

\* The command a builder method returned, the empty String for none, for a
\* failure and when no builder is selected.
Suggested(r) == IF r.ok /\ is_some(r.val) THEN unwrap(r.val) ELSE <<>>

ExpectedInstall ==
  IF is_some(self.builder)
    THEN Suggested(builder_install_cmd(unwrap(self.builder), self.app))
    ELSE <<>>

ExpectedBuild ==
  IF is_some(self.custom_build_cmd) THEN unwrap(self.custom_build_cmd)
  ELSE IF is_some(self.builder)
    THEN Suggested(builder_suggested_build_cmd(unwrap(self.builder), self.app))
    ELSE <<>>

ExpectedStart ==
  IF is_some(self.custom_start_cmd) THEN unwrap(self.custom_start_cmd)
  ELSE IF is_some(self.builder)
    THEN Suggested(builder_suggested_start_command(unwrap(self.builder), self.app))
    ELSE <<>>

\* The clause of the Dockerfile text under the comment line `marker`.
ClauseAfter(text, marker) ==
  LET at == {k \in 1..(Len(text) - 1) : text[k] = <<marker>>}
  IN  IF at = {} THEN <<"no such clause">> ELSE text[(CHOOSE k \in at : TRUE) + 1]

\* C8: in the text gen_dockerfile returned, the build clause is the build
\* override if there is one, else the builder's suggestion, else empty; the
\* start clause likewise with the start override; the install clause is the
\* selected builder's install command, or empty, whatever the Build Request.
C8_ClausePrecedence ==
  is_some(dockerfile) =>
    /\ ClauseAfter(unwrap(dockerfile), "# Install") = <<"RUN ">> \o ExpectedInstall
    /\ ClauseAfter(unwrap(dockerfile), "# Build") = <<"RUN ">> \o ExpectedBuild
    /\ ClauseAfter(unwrap(dockerfile), "# Start") = <<"CMD ">> \o ExpectedStart

\* Both a build override and a builder suggestion exist, and so for start:
\* the overrides are rendered, the install clause is the builder's.
C8_Witness ==
  /\ is_some(dockerfile)
  /\ self.builder = Some("npm")
  /\ is_some(self.custom_build_cmd)
  /\ is_some(self.custom_start_cmd)
  /\ ClauseAfter(unwrap(dockerfile), "# Build") = <<"RUN ", "make">>
  /\ ClauseAfter(unwrap(dockerfile), "# Start") = <<"CMD ", "./run">>
  /\ ClauseAfter(unwrap(dockerfile), "# Install") = <<"RUN ", "npm install">>

\* The lines of a text that are clauses: not blank and not a comment.
RECURSIVE Clauses(_)
Clauses(text) ==
  IF Len(text) = 0 THEN <<>>
  ELSE IF Head(text) = <<>> \/ Head(text)[1] \in {"# Load Nix environment",
                                                   "# Install", "# Build", "# Start"}
    THEN Clauses(Tail(text))
    ELSE <<Head(text)>> \o Clauses(Tail(text))

\* C9: every text gen_dockerfile returned has the same clauses in the same
\* order: base image, channel update, copy and workdir, environment load,
\* install, build, start; a command that was not determined leaves its
\* clause in place with nothing after the keyword.
C9_SevenClauses ==
  is_some(dockerfile) =>
    LET c == Clauses(unwrap(dockerfile))
    IN  /\ Len(c) = 8
        /\ c[1] = <<"FROM nixos/nix">>
        /\ c[2] = <<"RUN nix-channel --update">>
        /\ c[3] = <<"COPY . /app">>
        /\ c[4] = <<"WORKDIR /app">>
        /\ c[5] = <<"RUN nix-env -if environment.nix">>
        /\ c[6][1] = "RUN " /\ (ExpectedInstall = <<>> => c[6] = <<"RUN ">>)
        /\ c[7][1] = "RUN " /\ (ExpectedBuild = <<>> => c[7] = <<"RUN ">>)
        /\ c[8][1] = "CMD " /\ (ExpectedStart = <<>> => c[8] = <<"CMD ">>)

\* No builder and no build override: install and build are undetermined and
\* their clauses are there, empty.
C9_Witness ==
  /\ is_some(dockerfile)
  /\ is_none(self.builder)
  /\ is_none(self.custom_build_cmd)
  /\ Clauses(unwrap(dockerfile))[6] = <<"RUN ">>
  /\ Clauses(unwrap(dockerfile))[7] = <<"RUN ">>
  /\ Len(Clauses(unwrap(dockerfile))) = 8

\* The pieces of a text between its " " separators, empty pieces dropped.
RECURSIVE SplitAcc(_, _, _)
SplitAcc(text, cur, acc) ==
  IF Len(text) = 0
    THEN IF cur = <<>> THEN acc ELSE Append(acc, cur)
  ELSE IF Head(text) = " "
    THEN SplitAcc(Tail(text), <<>>, IF cur = <<>> THEN acc ELSE Append(acc, cur))
    ELSE SplitAcc(Tail(text), Append(cur, Head(text)), acc)

Split(text) == SplitAcc(text, <<>>, <<>>)

\* The package references listed between "[ " and " ]" of a Nix expression.
ListedPkgs(text) == Split(SubSeq(text, 2, Len(text) - 2))

BuilderRefs ==
  IF is_some(self.builder)
    THEN Split(builder_build_inputs(unwrap(self.builder), self.app))
    ELSE <<>>

UserRefs == [k \in 1..Len(self.pkgs) |-> <<"pkgs.", self.pkgs[k]>>]

\* C10: the text gen_nix returned lists the selected builder's build inputs
\* (none without a builder) and then the extra packages, each list in its
\* own order, every entry once per occurrence.
C10_NixOrder ==
  is_some(nix_expression) =>
    /\ unwrap(nix_expression)[1] = "with import <nixpkgs> { }; [ "
    /\ ListedPkgs(unwrap(nix_expression)) = BuilderRefs \o UserRefs

\* A builder with two inputs and a package given twice: four entries.
C10_Witness ==
  /\ is_some(nix_expression)
  /\ self.builder = Some("yarn")
  /\ self.pkgs = <<"a", "a">>
  /\ ListedPkgs(unwrap(nix_expression)) =
       << <<"pkgs.", "nodejs">>, <<"pkgs.", "yarn">>, <<"pkgs.", "a">>, <<"pkgs.", "a">> >>

\* What a reader of ./tmp/<u>/Dockerfile gets: the file, or the file a link
\* of that name points to.
ReadDockerfile(u) ==
  IF fs[u].dockerfile_link THEN Some(disk.Dockerfile_text) ELSE fs[u].dockerfile

OtherInSteps(x) == \E k \in 1..Len(other.steps) : other.steps[k] = x

\* Both runs have written their two files and gone on to start docker.
BothStaged == InSteps("docker spawn") /\ OtherInSteps("docker spawn")

\* C11: two runs of the same request with the same builder list work in
\* different directories, and what they generate and what they write there
\* is the same: the two texts returned by gen_nix are equal, the two texts
\* returned by gen_dockerfile are equal, and once both runs have staged, the
\* environment.nix files of the two directories are equal and so are the
\* Dockerfile files.
C11_SameArtifactsDistinctWorkspaces ==
  /\ (is_some(id) /\ is_some(other.id)) => id # other.id
  /\ (is_some(nix_expression) /\ is_some(other.nix_expression))
       => nix_expression = other.nix_expression
  /\ (is_some(dockerfile) /\ is_some(other.dockerfile))
       => dockerfile = other.dockerfile
  /\ BothStaged =>
       /\ fs[unwrap(id)].nix = fs[unwrap(other.id)].nix
       /\ ReadDockerfile(unwrap(id)) = ReadDockerfile(unwrap(other.id))

\* Both runs have staged, in two directories, each a generated Dockerfile of
\* its own.
C11_Witness ==
  /\ BothStaged
  /\ id # other.id
  /\ ~fs[unwrap(id)].dockerfile_link
  /\ fs[unwrap(id)].dockerfile = dockerfile
  /\ fs[unwrap(other.id)].dockerfile = dockerfile
  /\ fs[unwrap(id)].nix = nix_expression

\* The names of the entries the listing was captured from: a captured path
\* is the source path and then the entry's name.
EntryNames ==
  {self.app.paths[k][Len(self.app.source) + 1] : k \in 1..Len(self.app.paths)}

\* s is a proper prefix of t.
ProperPrefix(s, t) == Len(s) < Len(t) /\ \A k \in 1..Len(s) : s[k] = t[k]

\* C12: includes_file(N) answers true exactly when N is, letter for letter,
\* the name of one of the captured entries; a name that is only the start of
\* an entry's name, that differs from it in case, or that is the name of the
\* source directory and of no entry, gets false.
C12_ExactFinalComponent ==
  (query # None /\ unwrap(query).answer # None) =>
    (unwrap(unwrap(query).answer) <=> unwrap(query).fname \in EntryNames)

\* includes_file has answered false for a name that is the name of the
\* source directory, the start of the only entry's name, and the name of
\* no entry.
C12_Witness ==
  /\ query # None
  /\ unwrap(query).answer = Some(FALSE)
  /\ self.app.source = <<unwrap(query).fname>>
  /\ Len(self.app.paths) = 1
  /\ \E n \in EntryNames : ProperPrefix(unwrap(query).fname, n)

NoStepTwice ==
  \A i, j \in 1..Len(steps) : steps[i] = steps[j] => i = j

\* C13: no step of a run is executed twice, and nothing staged is taken
\* back: in every state after it, the final state of a failed run included,
\* the directory a statement found is still there, a file a statement
\* created still exists, and a file a statement wrote still holds the text
\* written.
C13_NoRetryNoRollback ==
  /\ NoStepTwice
  /\ InSteps("write environment.nix") =>
       /\ fs[unwrap(id)].dir # "absent"
       /\ is_some(fs[unwrap(id)].nix)
  /\ InSteps("create Dockerfile") => fs[unwrap(id)].nix = nix_expression
  /\ InSteps("write Dockerfile") => is_some(ReadDockerfile(unwrap(id)))
  /\ InSteps("docker spawn") => ReadDockerfile(unwrap(id)) = dockerfile

\* build has failed on writing the Dockerfile, after a full copy and a
\* written environment.nix: the directory and both files are there.
C13_Witness ==
  /\ pc = "idle"
  /\ build_ret = "Writing Dockerfile"
  /\ fs[unwrap(id)].dir = "full"
  /\ fs[unwrap(id)].nix = nix_expression
  /\ fs[unwrap(id)].dockerfile = Some(<<>>)

ExpectedTag == IF self.name = None THEN <<unwrap(id)>> ELSE unwrap(self.name)

\* C14: every docker process of the run was started as
\* docker build ./tmp/<id> -t <tag> with <id> the identifier of this run and
\* <tag> the name given to the AppBuilder, or <id> when none was given; and
\* when build has returned Ok, the last line printed is the run command
\* with the same tag.
C14_TagAndWorkspace ==
  /\ \A k \in 1..Len(procs) :
       procs[k].cmd = "docker" =>
         /\ procs[k].ws = unwrap(id)
         /\ procs[k].args =
              << <<"build">>, <<"./tmp/", unwrap(id)>>, <<"-t">>, ExpectedTag >>
  /\ build_ret = "ok" =>
       stdout[Len(stdout)] = <<"\nRun:\n  docker run ">> \o ExpectedTag

\* build has returned Ok without a name given: docker was started with the
\* identifier as the tag.
C14_Witness ==
  /\ build_ret = "ok"
  /\ self.name = None
  /\ procs[Len(procs)].cmd = "docker"
  /\ procs[Len(procs)].args[4] = <<unwrap(id)>>

\* C15: in any interleaving of two runs, a step changes no directory under
\* ./tmp but the one of the run taking the step, which is not the directory
\* of the other run, and it does not change what the Dockerfile of another
\* directory reads as: no run overwrites what the other has staged.
C15_DisjointWorkspaces ==
  [][\A u \in Uuids :
       (fs'[u] # fs[u] \/ ReadDockerfile(u)' # ReadDockerfile(u))
         => (id = Some(u) /\ other.id # Some(u))]_vars

\* C16: no step changes the AppSource of the AppBuilder, neither its root
\* path nor its captured entries, so every builder method called in detect
\* and in gen_nix and gen_dockerfile is given the entries AppBuilder::new
\* captured.
C16_SnapshotFixed == [][self'.app = self.app]_vars

\* A run that has called builder methods in detect and in both generators,
\* over a source with entries.
C16_Witness ==
  /\ InSteps("gen_dockerfile")
  /\ is_some(self.builder)
  /\ Len(invoked) = 2
  /\ Len(self.app.paths) = 2

\* The results of the three command methods of builder b, in the order
\* gen_dockerfile calls them.
CmdResults(b) ==
  << builder_install_cmd(b, self.app),
     builder_suggested_build_cmd(b, self.app),
     builder_suggested_start_command(b, self.app) >>

SomeCmdFails(b) == \E k \in 1..3 : ~CmdResults(b)[k].ok

\* The error of the first of the three that fails.
FirstCmdError(b) ==
  CmdResults(b)[CHOOSE k \in 1..3 :
                  /\ ~CmdResults(b)[k].ok
                  /\ \A j \in 1..(k - 1) : CmdResults(b)[j].ok].val

\* C17: when one of the selected builder's install, build or start command
\* methods fails, whether or not the user has given a command of that kind,
\* then once build has executed gen_dockerfile it has returned the error of
\* the first method that failed, no Dockerfile text exists, no identifier
\* was drawn, no directory was created and no process was started.
C17_BuilderCmdFailureAborts ==
  (InSteps("gen_dockerfile") /\ is_some(self.builder)
     /\ SomeCmdFails(unwrap(self.builder))) =>
    /\ pc = "idle"
    /\ build_ret = FirstCmdError(unwrap(self.builder))
    /\ dockerfile = None
    /\ id = None
    /\ ~InSteps("uuid")
    /\ NoWorkspaceNoProcess

\* build has failed on the builder's build command although the user gave
\* a build command and a start command.
C17_Witness ==
  /\ InSteps("gen_dockerfile")
  /\ self.builder = Some("bad")
  /\ is_some(self.custom_build_cmd)
  /\ is_some(self.custom_start_cmd)
  /\ build_ret = "suggested_build_cmd failed"

FullyStaged(u) ==
  /\ fs[u].dir = "full"
  /\ fs[u].nix = nix_expression
  /\ ReadDockerfile(u) = dockerfile

\* C19: docker is started only on a directory that is fully staged: every
\* docker process of the run was given a directory that holds the whole
\* copied source, the environment.nix text and the Dockerfile text.
C19_DockerOnlyWhenStaged ==
  \A k \in 1..Len(procs) :
    procs[k].cmd = "docker" => FullyStaged(procs[k].ws)

\* The same, for the runs whose cp exited with status 0.
StagedWhenCopyExitedZero ==
  \A k \in 1..Len(procs) :
    (procs[k].cmd = "docker" /\ procs[1].status = "exit 0")
      => FullyStaged(procs[k].ws)

\* The source directory is as AppBuilder::new found it.
SourceUntouched == disk \in DisksOf(self.app)

\* C20: once build has gone on to start docker, environment.nix and
\* Dockerfile of ./tmp/<id> read as the texts gen_nix and gen_dockerfile
\* returned, also when the source had files of these names, which cp copied
\* first; and at no time has build changed a file of the source directory.
C20_ArtifactsOverCopySourceUntouched ==
  /\ InSteps("docker spawn") =>
       /\ fs[unwrap(id)].nix = nix_expression
       /\ ReadDockerfile(unwrap(id)) = dockerfile
  /\ SourceUntouched

\* The same, for the sources whose Dockerfile is not a symbolic link.
OverCopyWithoutLink ==
  disk.Dockerfile # "symlink" => C20_ArtifactsOverCopySourceUntouched

\* The copy of the source's own Dockerfile was overwritten.
OverwrittenCopy ==
  /\ InSteps("docker spawn")
  /\ disk.Dockerfile = "file"
  /\ fs[unwrap(id)].dir = "full"
  /\ fs[unwrap(id)].dockerfile = dockerfile

====
